---- MODULE Spec2Model ----
(***************************************************************************)
(* Model of ResetPasswordComponent                                         *)
(* (src/app/features/unrestricted-features/reset-password/                 *)
(*  reset-password.component.ts): the three-step password recovery         *)
(* workflow, its OTP countdown and its remote calls.                       *)
(*                                                                         *)
(* One action per handler or callback.  The three form controls are bound  *)
(* to inputs the user may retype between any two handler runs, so a        *)
(* handler reads an arbitrary value of its controls when it starts: the    *)
(* values are the parameters of the handler's action.  A remote call is a  *)
(* message in `inflight` from the moment the handler subscribes until its  *)
(* next/error callback runs; callbacks of different calls may run in any   *)
(* order, and they still run after ngOnDestroy because the component never *)
(* unsubscribes from them.                                                 *)
(***************************************************************************)
EXTENDS Bags, FiniteSets, Integers, Sequences, TLC

VARIABLES
    isOtpSent,
    isOtpVerified,
    remainingTime,
    resendOtpDisabled,
    otpSubscription,    \* TRUE iff the field holds a Subscription (non-null)
    isLoadingOtp,
    intervals,          \* number of live interval(1000) subscriptions
    inflight,           \* bag of remote calls subscribed and not yet completed
    navigations,        \* number of router.navigate(['/login']) calls made
    destroyed,          \* ngOnDestroy has run
    lastOp,             \* the handler or callback that ran last, and the
                        \* form values it read: sendOtp <<email>>,
                        \* verifyOtp <<email, otp>>, resetPassword
                        \* <<email, password, confirmPassword>>
    precall,            \* Observed as it was when the call in flight was
                        \* issued (see Watch), or NoCall
    otpEmail            \* the email of the sendOtp call that succeeded last,
                        \* or NoEmail

fields == <<isOtpSent, isOtpVerified, remainingTime, resendOtpDisabled,
            otpSubscription, isLoadingOtp, intervals, inflight, navigations,
            destroyed>>

vars == <<isOtpSent, isOtpVerified, remainingTime, resendOtpDisabled,
          otpSubscription, isLoadingOtp, intervals, inflight, navigations,
          destroyed, lastOp, precall, otpEmail>>

----------------------------------------------------------------------------
(* Bounds *)

MaxInFlight == 2

MaxNav == 2

(* Program constant *)

otpTimer == 60

----------------------------------------------------------------------------
(* Input values.  Strings are sequences of one-character strings. *)

Emails ==
    { <<>>,
      <<"u", "@">>,
      <<"u", "@", "e", ".", "c">> }

Otps ==
    { <<>>,
      <<"1", "2", "3", "4", "5">>,
      <<"1", "2", "3", "4", "5", "6">> }

StrongPassword == <<"A", "b", "c", "1", "2", "3", "4", "5", "!">>

WeakPassword == <<"a", "b", "c">>

PasswordForms ==
    { [password |-> <<>>, confirmPassword |-> <<>>],
      [password |-> StrongPassword, confirmPassword |-> WeakPassword],
      [password |-> StrongPassword, confirmPassword |-> StrongPassword] }

----------------------------------------------------------------------------
(* Validators *)

Count(s, c) == Cardinality({i \in 1..Len(s) : s[i] = c})

IndexOf(s, c) == IF Count(s, c) = 0 THEN 0
                 ELSE CHOOSE i \in 1..Len(s) :
                        s[i] = c /\ \A j \in 1..(i - 1) : s[j] # c

\* Validators.required: the control has a non-empty value.
required(s) == Len(s) > 0

\* Validators.minLength(n): passes on an empty value, else length >= n.
minLength(n, s) == Len(s) = 0 \/ Len(s) >= n

\* emailValidator(): local@domain.tld, one "@", no spaces, a "." inside the
\* domain with something on both sides of it.
emailValidator(s) ==
    LET at == IndexOf(s, "@")
        domain == SubSeq(s, at + 1, Len(s))
        dot == IndexOf(domain, ".")
    IN  /\ Count(s, "@") = 1
        /\ Count(s, " ") = 0
        /\ at > 1
        /\ dot > 1
        /\ dot < Len(domain)

UpperCase == {"A", "B"}

LowerCase == {"a", "b", "c"}

SpecialCharacter == {"!", "#"}

\* passwordValidator(): upper-case, lower-case and special character
\* present, no spaces.
passwordValidator(s) ==
    /\ \E i \in 1..Len(s) : s[i] \in UpperCase
    /\ \E i \in 1..Len(s) : s[i] \in LowerCase
    /\ \E i \in 1..Len(s) : s[i] \in SpecialCharacter
    /\ Count(s, " ") = 0

\* matchPasswordValidator('password'): the control equals the password.
matchPasswordValidator(form) == form.confirmPassword = form.password

\* emailForm.invalid
EmailFormInvalid(email) == ~(required(email) /\ emailValidator(email))

\* otpForm.invalid
OtpFormInvalid(otp) == ~(required(otp) /\ minLength(6, otp))

\* resetPasswordForm.invalid
ResetPasswordFormInvalid(form) ==
    ~(/\ required(form.password)
      /\ minLength(8, form.password)
      /\ passwordValidator(form.password)
      /\ required(form.confirmPassword)
      /\ matchPasswordValidator(form))

----------------------------------------------------------------------------
(* The workflow step encoded by the two flags, in the order in which       *)
(* handleBackNavigation tests them.                                        *)

step == IF isOtpVerified THEN "OtpVerified"
        ELSE IF isOtpSent THEN "AwaitingOtp"
        ELSE "EnteringEmail"

\* A remote call of the ResetPasswordService.  Its arguments are kept in
\* lastOp when it is issued: the service answers success or failure as it
\* likes, and no callback reads the arguments back.
Call(kind) == [kind |-> kind]

\* The sendOtp call of the service, with the email it was given: the OTP
\* the service sends out belongs to that email.
OtpRequest(email) == [kind |-> "sendOtp", email |-> email]

NoEmail == <<"none">>

Pending(kind) == {m \in BagToSet(inflight) : m.kind = kind}

Op(name, args) == [op |-> name, args |-> args]

\* What a caller of the workflow observes of it.
Observed == [step |-> step,
             remainingTime |-> remainingTime,
             resendOtpDisabled |-> resendOtpDisabled,
             active |-> otpSubscription]

NoCall == [step |-> "none"]

----------------------------------------------------------------------------
Init ==
    /\ isOtpSent = FALSE
    /\ isOtpVerified = FALSE
    /\ remainingTime = otpTimer
    /\ resendOtpDisabled = FALSE
    /\ otpSubscription = FALSE
    /\ isLoadingOtp = FALSE
    /\ intervals = 0
    /\ inflight = EmptyBag
    /\ navigations = 0
    /\ destroyed = FALSE
    /\ lastOp = Op("constructor", <<>>)
    /\ precall = NoCall
    /\ otpEmail = NoEmail

----------------------------------------------------------------------------
\* Bookkeeping.  otpEmail follows the email of the OTP request that
\* succeeded last.  For the pre-call state of a remote call, Observed is recorded
\* when a handler issues a call from the step that offers it (Offered), with
\* no other call in flight and the remaining time at otpTimer; it is kept
\* while that call is the only one in flight, and dropped when the call
\* completes or another call is issued.
Offered ==
    \/ /\ lastOp'.op = "sendOtp"
       /\ \/ step = "EnteringEmail"
          \/ step = "AwaitingOtp" /\ ~resendOtpDisabled
    \/ /\ lastOp'.op = "verifyOtp"
       /\ step = "AwaitingOtp"
       /\ ~EmailFormInvalid(lastOp'.args[1])
       /\ ~OtpFormInvalid(lastOp'.args[2])
    \/ /\ lastOp'.op = "resetPassword"
       /\ step = "OtpVerified"
       /\ ~EmailFormInvalid(lastOp'.args[1])

Watch ==
    /\ otpEmail' = IF lastOp'.op = "sendOtp.next" THEN lastOp'.args[1]
                   ELSE otpEmail
    /\ precall' = IF inflight = EmptyBag /\ inflight' # EmptyBag
                     /\ remainingTime = otpTimer /\ Offered
                  THEN Observed
                  ELSE IF inflight' = inflight THEN precall ELSE NoCall

----------------------------------------------------------------------------
(* The countdown *)

\* stopOtpTimer() clearing the field without unsubscribing the interval.
StopOtpTimerNoUnsubscribe ==
    IF otpSubscription
    THEN /\ otpSubscription' = FALSE
         /\ UNCHANGED intervals
    ELSE UNCHANGED <<intervals, otpSubscription>>

\* stopOtpTimer()
StopOtpTimer ==
    IF otpSubscription
    THEN /\ intervals' = intervals - 1
         /\ otpSubscription' = FALSE
    ELSE UNCHANGED <<intervals, otpSubscription>>

\* startOtpTimer() without its leading stopOtpTimer(): the interval that was
\* running stays subscribed.
StartOtpTimerNoStop ==
    /\ intervals' = intervals + 1
    /\ otpSubscription' = TRUE
    /\ remainingTime' = otpTimer

\* startOtpTimer(): stopOtpTimer(), reset the remaining time, subscribe.
StartOtpTimer ==
    /\ intervals' = (IF otpSubscription THEN intervals - 1 ELSE intervals) + 1
    /\ otpSubscription' = TRUE
    /\ remainingTime' = otpTimer

\* The callback subscribed to interval(1000), run once per live interval
\* and second.
Tick ==
    /\ intervals > 0
    /\ IF remainingTime > 0
       THEN /\ remainingTime' = remainingTime - 1
            /\ UNCHANGED <<intervals, otpSubscription, resendOtpDisabled>>
       ELSE /\ StopOtpTimer
            /\ resendOtpDisabled' = FALSE
            /\ UNCHANGED remainingTime
    /\ lastOp' = Op("tick", <<>>)
    /\ UNCHANGED <<isOtpSent, isOtpVerified, isLoadingOtp, inflight,
                   navigations, destroyed>>
    /\ Watch

----------------------------------------------------------------------------
(* sendOtp() and the callbacks of its subscription *)

\* sendOtp() without the `if (this.emailForm.invalid) return;` line.
SendOtpNoGuard(email) ==
    /\ ~destroyed
    /\ lastOp' = Op("sendOtp", <<email>>)
    /\ BagCardinality(inflight) < MaxInFlight
    /\ isLoadingOtp' = TRUE
    /\ inflight' = inflight (+) SetToBag({OtpRequest(email)})
    /\ UNCHANGED <<isOtpSent, isOtpVerified, remainingTime,
                   resendOtpDisabled, otpSubscription, intervals,
                   navigations, destroyed>>
    /\ Watch

SendOtp(email) ==
    /\ ~destroyed
    /\ lastOp' = Op("sendOtp", <<email>>)
    /\ IF EmailFormInvalid(email)
       THEN UNCHANGED fields
       ELSE /\ BagCardinality(inflight) < MaxInFlight
            /\ isLoadingOtp' = TRUE
            /\ inflight' = inflight (+) SetToBag({OtpRequest(email)})
            /\ UNCHANGED <<isOtpSent, isOtpVerified, remainingTime,
                           resendOtpDisabled, otpSubscription, intervals,
                           navigations, destroyed>>
    /\ Watch

SendOtpNext(m) ==
    /\ m \in Pending("sendOtp")
    /\ inflight' = inflight (-) SetToBag({m})
    /\ isOtpSent' = TRUE
    /\ isLoadingOtp' = FALSE
    /\ resendOtpDisabled' = TRUE
    /\ StartOtpTimer
    /\ lastOp' = Op("sendOtp.next", <<m.email>>)
    /\ UNCHANGED <<isOtpVerified, navigations, destroyed>>
    /\ Watch

SendOtpError(m) ==
    /\ m \in Pending("sendOtp")
    /\ inflight' = inflight (-) SetToBag({m})
    /\ isLoadingOtp' = FALSE
    /\ lastOp' = Op("sendOtp.error", <<>>)
    /\ UNCHANGED <<isOtpSent, isOtpVerified, remainingTime,
                   resendOtpDisabled, otpSubscription, intervals,
                   navigations, destroyed>>
    /\ Watch

----------------------------------------------------------------------------
(* verifyOtp() and the callbacks of its subscription *)

VerifyOtp(email, otp) ==
    /\ ~destroyed
    /\ BagCardinality(inflight) < MaxInFlight
    /\ inflight' = inflight (+) SetToBag({Call("verifyOtp")})
    /\ lastOp' = Op("verifyOtp", <<email, otp>>)
    /\ UNCHANGED <<isOtpSent, isOtpVerified, remainingTime,
                   resendOtpDisabled, otpSubscription, isLoadingOtp,
                   intervals, navigations, destroyed>>
    /\ Watch

VerifyOtpNext(m) ==
    /\ m \in Pending("verifyOtp")
    /\ inflight' = inflight (-) SetToBag({m})
    /\ isOtpVerified' = TRUE
    /\ StopOtpTimer
    /\ lastOp' = Op("verifyOtp.next", <<>>)
    /\ UNCHANGED <<isOtpSent, remainingTime, resendOtpDisabled,
                   isLoadingOtp, navigations, destroyed>>
    /\ Watch

\* The error callback of verifyOtp() stopping the countdown as the next
\* callback does.
VerifyOtpErrorStopsTimer(m) ==
    /\ m \in Pending("verifyOtp")
    /\ inflight' = inflight (-) SetToBag({m})
    /\ StopOtpTimer
    /\ lastOp' = Op("verifyOtp.error", <<>>)
    /\ UNCHANGED <<isOtpSent, isOtpVerified, remainingTime,
                   resendOtpDisabled, isLoadingOtp, navigations, destroyed>>
    /\ Watch

VerifyOtpError(m) ==
    /\ m \in Pending("verifyOtp")
    /\ inflight' = inflight (-) SetToBag({m})
    /\ lastOp' = Op("verifyOtp.error", <<>>)
    /\ UNCHANGED <<isOtpSent, isOtpVerified, remainingTime,
                   resendOtpDisabled, otpSubscription, isLoadingOtp,
                   intervals, navigations, destroyed>>
    /\ Watch

----------------------------------------------------------------------------
(* resetPassword() and the callbacks of its subscription *)

ResetPassword(email, form) ==
    /\ ~destroyed
    /\ lastOp' = Op("resetPassword",
                    <<email, form.password, form.confirmPassword>>)
    /\ IF ResetPasswordFormInvalid(form)
       THEN UNCHANGED fields
       ELSE /\ BagCardinality(inflight) < MaxInFlight
            /\ inflight' = inflight (+) SetToBag({Call("resetPassword")})
            /\ UNCHANGED <<isOtpSent, isOtpVerified, remainingTime,
                           resendOtpDisabled, otpSubscription, isLoadingOtp,
                           intervals, navigations, destroyed>>
    /\ Watch

ResetPasswordNext(m) ==
    /\ m \in Pending("resetPassword")
    /\ navigations < MaxNav
    /\ inflight' = inflight (-) SetToBag({m})
    /\ navigations' = navigations + 1
    /\ lastOp' = Op("resetPassword.next", <<>>)
    /\ UNCHANGED <<isOtpSent, isOtpVerified, remainingTime,
                   resendOtpDisabled, otpSubscription, isLoadingOtp,
                   intervals, destroyed>>
    /\ Watch

ResetPasswordError(m) ==
    /\ m \in Pending("resetPassword")
    /\ inflight' = inflight (-) SetToBag({m})
    /\ lastOp' = Op("resetPassword.error", <<>>)
    /\ UNCHANGED <<isOtpSent, isOtpVerified, remainingTime,
                   resendOtpDisabled, otpSubscription, isLoadingOtp,
                   intervals, navigations, destroyed>>
    /\ Watch

----------------------------------------------------------------------------
(* handleBackNavigation() and ngOnDestroy() *)

\* handleBackNavigation() leaving OtpVerified by clearing isOtpVerified only,
\* without the `this.isOtpSent = true` line.
HandleBackNavigationKeepsSent ==
    /\ ~destroyed
    /\ lastOp' = Op("handleBackNavigation", <<>>)
    /\ IF isOtpVerified
       THEN /\ isOtpVerified' = FALSE
            /\ UNCHANGED <<isOtpSent, navigations>>
       ELSE IF isOtpSent
       THEN /\ isOtpSent' = FALSE
            /\ UNCHANGED <<isOtpVerified, navigations>>
       ELSE /\ navigations < MaxNav
            /\ navigations' = navigations + 1
            /\ UNCHANGED <<isOtpSent, isOtpVerified>>
    /\ UNCHANGED <<remainingTime, resendOtpDisabled, otpSubscription,
                   isLoadingOtp, intervals, inflight, destroyed>>
    /\ Watch

HandleBackNavigation ==
    /\ ~destroyed
    /\ lastOp' = Op("handleBackNavigation", <<>>)
    /\ IF isOtpVerified
       THEN /\ isOtpVerified' = FALSE
            /\ isOtpSent' = TRUE
            /\ UNCHANGED navigations
       ELSE IF isOtpSent
       THEN /\ isOtpSent' = FALSE
            /\ UNCHANGED <<isOtpVerified, navigations>>
       ELSE /\ navigations < MaxNav
            /\ navigations' = navigations + 1
            /\ UNCHANGED <<isOtpSent, isOtpVerified>>
    /\ UNCHANGED <<remainingTime, resendOtpDisabled, otpSubscription,
                   isLoadingOtp, intervals, inflight, destroyed>>
    /\ Watch

NgOnDestroy ==
    /\ ~destroyed
    /\ StopOtpTimer
    /\ destroyed' = TRUE
    /\ lastOp' = Op("ngOnDestroy", <<>>)
    /\ UNCHANGED <<isOtpSent, isOtpVerified, remainingTime,
                   resendOtpDisabled, isLoadingOtp, inflight, navigations>>
    /\ Watch

----------------------------------------------------------------------------
Next ==
    \/ \E e \in Emails : SendOtp(e)
    \/ \E m \in BagToSet(inflight) : SendOtpNext(m)
    \/ \E m \in BagToSet(inflight) : SendOtpError(m)
    \/ Tick
    \/ \E e \in Emails, o \in Otps : VerifyOtp(e, o)
    \/ \E m \in BagToSet(inflight) : VerifyOtpNext(m)
    \/ \E m \in BagToSet(inflight) : VerifyOtpError(m)
    \/ \E e \in Emails, p \in PasswordForms : ResetPassword(e, p)
    \/ \E m \in BagToSet(inflight) : ResetPasswordNext(m)
    \/ \E m \in BagToSet(inflight) : ResetPasswordError(m)
    \/ HandleBackNavigation
    \/ NgOnDestroy

Spec == Init /\ [][Next]_vars

----------------------------------------------------------------------------
(* Properties *)

Triggers == {"sendOtp", "verifyOtp", "resetPassword"}

Failures == {"sendOtp.error", "verifyOtp.error", "resetPassword.error"}

\* C1: while the component is alive, resendOtpDisabled is true if and only
\* if a countdown is active (otpSubscription is non-null).
C1_ResendDisabledIffTimerActive ==
    ~destroyed => (resendOtpDisabled <=> otpSubscription)

\* C2: resetPassword() issues its remote call only when the step is
\* OtpVerified.
C2_ResetOnlyWhenVerified ==
    [][(lastOp'.op = "resetPassword" /\ inflight' # inflight)
          => step = "OtpVerified"]_vars

\* C3: a trigger fired while a remote call is in flight starts no new
\* remote call and changes no field.
C3_OneCallInFlight ==
    [][(lastOp'.op \in Triggers /\ inflight # EmptyBag)
          => UNCHANGED fields]_vars

\* C4: the step becomes AwaitingOtp from EnteringEmail only in the next
\* callback of sendOtp(), and becomes OtpVerified only in the next callback
\* of verifyOtp() run while the step is AwaitingOtp.
C4_ForwardOnlyOnSuccess ==
    [][/\ (step = "EnteringEmail" /\ step' = "AwaitingOtp")
            => lastOp'.op = "sendOtp.next"
       /\ (step # "OtpVerified" /\ step' = "OtpVerified")
            => (lastOp'.op = "verifyOtp.next" /\ step = "AwaitingOtp")]_vars

\* C5: after handleBackNavigation() from a step other than EnteringEmail no
\* countdown is running.
C5_BackStopsTimer ==
    [][(lastOp'.op = "handleBackNavigation" /\ step # "EnteringEmail")
          => (~otpSubscription' /\ intervals' = 0)]_vars

\* C6: once ngOnDestroy() has run, no countdown is active.
C6_NoTimerAfterDestroy ==
    destroyed => (~otpSubscription /\ intervals = 0)

\* C7: verifyOtp() with an OTP control that fails its validators (empty, or
\* shorter than 6) makes no remote call and changes no field.
C7_VerifyInvalidOtpNoOp ==
    [][(lastOp'.op = "verifyOtp" /\ OtpFormInvalid(lastOp'.args[2]))
          => UNCHANGED fields]_vars

\* C8: sendOtp() with an email control that fails its validators (empty, or
\* not of email shape) makes no remote call and changes no field.
C8_SendInvalidEmailNoOp ==
    [][(lastOp'.op = "sendOtp" /\ EmailFormInvalid(lastOp'.args[1]))
          => UNCHANGED fields]_vars

\* C8 witness: sendOtp() has just run on a non-empty email of the wrong shape.
C8_Witness ==
    /\ lastOp.op = "sendOtp"
    /\ lastOp.args[1] # <<>>
    /\ EmailFormInvalid(lastOp.args[1])

\* C9: at most one interval subscription is live, and it is the one
\* otpSubscription holds.
C9_OneCountdown ==
    /\ intervals <= 1
    /\ otpSubscription <=> intervals = 1

\* C9 witness: an OTP request has just succeeded and started the countdown
\* while a second OTP request is still to complete.
C9_Witness ==
    /\ lastOp.op = "sendOtp.next"
    /\ intervals = 1
    /\ Pending("sendOtp") # {}

\* C10 as stated: when the failure of a remote call is processed, Observed
\* equals what it was when the call was issued (stated for the calls whose
\* pre-call state Watch records).
C10_FailureRestoresPreCall ==
    [][(lastOp'.op \in Failures /\ precall # NoCall)
          => Observed' = precall]_vars

\* C10 as amended: processing a failure changes nothing of Observed, nor
\* whether the component is alive.
C10_FailureChangesNothing ==
    [][lastOp'.op \in Failures
          => (Observed' = Observed /\ destroyed' = destroyed)]_vars

\* C10 witness: a verification has just failed while the countdown runs,
\* after at least one tick.
C10_Witness ==
    /\ lastOp.op = "verifyOtp.error"
    /\ otpSubscription
    /\ remainingTime < otpTimer

\* The (step, trigger) pairs of the transition table: sendOtp() from
\* EnteringEmail, sendOtp() as resend from AwaitingOtp with resend enabled,
\* verifyOtp() from AwaitingOtp, resetPassword() from OtpVerified.
Listed ==
    \/ /\ lastOp'.op = "sendOtp"
       /\ \/ step = "EnteringEmail"
          \/ step = "AwaitingOtp" /\ ~resendOtpDisabled
    \/ lastOp'.op = "verifyOtp" /\ step = "AwaitingOtp"
    \/ lastOp'.op = "resetPassword" /\ step = "OtpVerified"

\* C11: a trigger fired in a step the transition table does not list it for
\* makes no remote call and changes no field.
C11_UnlistedTriggerNoOp ==
    [][(lastOp'.op \in Triggers /\ ~Listed) => UNCHANGED fields]_vars

\* C12: a tick never leaves remainingTime at 0 with resend still disabled,
\* and never changes the step.
C12_ResendEnabledAtZero ==
    [][lastOp'.op = "tick"
          => (step' = step /\ (remainingTime' = 0 => ~resendOtpDisabled'))]_vars

\* C13: while the step is OtpVerified no countdown is active and
\* remainingTime does not change.
C13_FrozenWhileVerified ==
    [][step' = "OtpVerified"
          => (/\ ~otpSubscription'
              /\ intervals' = 0
              /\ step = "OtpVerified" => remainingTime' = remainingTime)]_vars

\* C14: the interval callback runs only while the countdown started last
\* has not been stopped; once stopOtpTimer() has returned, no tick follows
\* until the next startOtpTimer().
C14_NoTickAfterStop ==
    [][lastOp'.op = "tick" => (otpSubscription /\ intervals = 1)]_vars

\* C14 witness: verifyOtp's next callback has just stopped the countdown
\* part-way, and no interval is left.
C14_Witness ==
    /\ lastOp.op = "verifyOtp.next"
    /\ remainingTime > 0
    /\ remainingTime < otpTimer
    /\ ~otpSubscription
    /\ intervals = 0

\* C15: a password reset that succeeds in OtpVerified makes one exit, and no second reset
\* succeeds right after it to make another.
C15_ExitOnce ==
    [][(lastOp'.op = "resetPassword.next" /\ step = "OtpVerified")
          => (/\ navigations' = navigations + 1
              /\ lastOp.op # "resetPassword.next")]_vars

\* C16: once an OTP request has succeeded, verifyOtp() and resetPassword()
\* called from their steps pass the service the email of the OTP request
\* that succeeded last.
C16_EmailOfLastOtp ==
    [][(/\ lastOp'.op \in {"verifyOtp", "resetPassword"}
        /\ Listed
        /\ inflight' # inflight
        /\ otpEmail # NoEmail)
          => lastOp'.args[1] = otpEmail]_vars

\* C17: when an OTP request succeeds, the step is AwaitingOtp, the remaining
\* time is otpTimer, resend is disabled and one countdown is running.
C17_AfterOtpRequest ==
    [][lastOp'.op = "sendOtp.next"
          => (/\ step' = "AwaitingOtp"
              /\ remainingTime' = otpTimer
              /\ resendOtpDisabled'
              /\ otpSubscription'
              /\ intervals' = 1)]_vars

\* C18: handleBackNavigation() goes from OtpVerified to AwaitingOtp, from
\* AwaitingOtp to EnteringEmail, and from EnteringEmail navigates to /login
\* once and leaves the step alone.
C18_BackOneStep ==
    [][lastOp'.op = "handleBackNavigation"
          => (/\ step = "OtpVerified" =>
                    (step' = "AwaitingOtp" /\ navigations' = navigations)
              /\ step = "AwaitingOtp" =>
                    (step' = "EnteringEmail" /\ navigations' = navigations)
              /\ step = "EnteringEmail" =>
                    (step' = "EnteringEmail"
                        /\ navigations' = navigations + 1))]_vars

\* C18 witness: handleBackNavigation() has just left OtpVerified (the only
\* step it leaves for AwaitingOtp) and an exit to /login was made earlier.
C18_Witness ==
    /\ lastOp.op = "handleBackNavigation"
    /\ step = "AwaitingOtp"
    /\ navigations > 0

\* C19: isOtpVerified implies isOtpSent.
C19_VerifiedImpliesSent ==
    isOtpVerified => isOtpSent

\* C20: while the component is alive and the step is AwaitingOtp, resend is
\* disabled only while a countdown runs: the tick at 0 is the one place
\* that enables resend again, so without a countdown it stays disabled.
C20_ResendDisabledHasCountdown ==
    (~destroyed /\ step = "AwaitingOtp" /\ resendOtpDisabled)
        => (otpSubscription /\ intervals = 1)

====
